---- MODULE Spec2Model ----
(***************************************************************************)
(* Model of cloudmart_tagging_app.py: the right-aligned CSV loader         *)
(* (load_data) and the session state machine around st.session_state       *)
(* (original_df, df_edited) with the Task 5 remediation workflow.           *)
(*                                                                         *)
(* Text is a sequence of tokens.  A token is one delimiter character       *)
(* (comma, double quote, blank, newline) or one maximal run of other        *)
(* characters ("EC2", "Department", "100"); str.strip, str.split and the    *)
(* quote test of load_data only ever look at the delimiter characters, so   *)
(* they are modelled token by token.  A cell is a token sequence, the       *)
(* missing marker pd.NA / NaN is the cell NA.                               *)
(***************************************************************************)
EXTENDS Integers, Sequences, FiniteSets, TLC

VARIABLES
    \* load_data, one upload followed line by line (ParserSpec)
    content,        \* the text handed to load_data
    lines,          \* content.strip().split('\n')
    headers,        \* the stripped column names
    data_rows,      \* the repaired field lists collected so far
    line_no,        \* index into lines[1:] of the next line to process
    pc,             \* "start" | "rows" | "done" ("idle" in the session spec)
    loaded,         \* what load_data returned
    \* the Streamlit session (Spec)
    uploaded_file,  \* 0 = no file in the uploader, else an index into Files
    df,             \* load_data(uploaded_file) of the last script run
    original_df,    \* st.session_state.original_df
    df_edited,      \* st.session_state.df_edited
    task_set,       \* the sidebar radio
    selected,       \* the sidebar select boxes
    edited_data,    \* what st.data_editor returned in the run that applied
    changes_made,   \* the counter of the last Apply
    n_proposed,     \* how many cells the analyst had changed in that editor
    last_op,        \* the interaction that caused the last script run
    filtered_df,    \* the filtered view of df the pages aggregate over
    passes,         \* the filter selections applied so far (ViewSpec)
    \* the Apply handler followed statement by statement (HandlerSpec)
    step,           \* "row" | "write" | "done" ("idle" elsewhere)
    row_no,         \* position in edited_data of the row the loop is at
    col_no,         \* position of the next column to write
    flags           \* has_dept, has_project, has_owner of that row

parser_vars == <<content, lines, headers, data_rows, line_no, pc, loaded>>
session_vars == <<uploaded_file, df, original_df, df_edited, task_set, selected,
                  edited_data, changes_made, n_proposed, last_op,
                  filtered_df, passes, step, row_no, col_no, flags>>
handler_vars == <<step, row_no, col_no, flags>>
vars == <<content, lines, headers, data_rows, line_no, pc, loaded,
          uploaded_file, df, original_df, df_edited, task_set, selected,
          edited_data, changes_made, n_proposed, last_op,
          filtered_df, passes, step, row_no, col_no, flags>>

(***************************************************************************)
(* Text primitives                                                         *)
(***************************************************************************)
COMMA == ","
QUOTE == "\""
BLANK == " "
NEWLINE == "\n"

\* the characters str.strip() removes
Whitespace == {BLANK, NEWLINE}

Max(a, b) == IF a >= b THEN a ELSE b

\* str.strip(): drop leading and trailing whitespace
Strip(s) ==
    LET keep == {k \in 1..Len(s) : s[k] \notin Whitespace}
    IN  IF keep = {} THEN <<>>
        ELSE LET lo == CHOOSE k \in keep : \A m \in keep : k <= m
                 hi == CHOOSE k \in keep : \A m \in keep : k >= m
             IN  SubSeq(s, lo, hi)

\* str.split(sep): always at least one piece, empty pieces kept
RECURSIVE Split(_, _)
Split(s, sep) ==
    LET hits == {k \in 1..Len(s) : s[k] = sep}
    IN  IF hits = {} THEN <<s>>
        ELSE LET k == CHOOSE h \in hits : \A m \in hits : h <= m
             IN  <<SubSeq(s, 1, k - 1)>> \o Split(SubSeq(s, k + 1, Len(s)), sep)

\* if s.startswith('"') and s.endswith('"'): s = s[1:-1]
Unquote(s) ==
    IF Len(s) >= 1 /\ s[1] = QUOTE /\ s[Len(s)] = QUOTE
    THEN SubSeq(s, 2, Len(s) - 1)
    ELSE s

\* Python slices fields[:-k] and fields[-k:]
DropLast(fields, k) == SubSeq(fields, 1, Max(Len(fields) - k, 0))
TakeLast(fields, k) == SubSeq(fields, Max(Len(fields) - k, 0) + 1, Len(fields))

\* [''] * n
Padding(n) == [k \in 1..n |-> <<>>]

(***************************************************************************)
(* load_data                                                               *)
(***************************************************************************)
\* the number of trailing fields the repair keeps at the right edge
TrailingFields == 3

\* lines = content.strip().split('\n')
SplitLines(text) == Split(Strip(text), NEWLINE)

\* headers = [h.strip() for h in header_line.split(',')]
ParseHeader(line) ==
    LET parts == Split(Unquote(Strip(line)), COMMA)
    IN  [k \in 1..Len(parts) |-> Strip(parts[k])]

\* line.strip(), quote removal, line.split(',')
SplitFields(line) == Split(Unquote(Strip(line)), COMMA)

\* RightAlign with the padding sized as if the tail always held three fields
RightAlignAssumingThree(fields, expected_cols) ==
    DropLast(fields, TrailingFields)
        \o Padding(expected_cols - Len(DropLast(fields, TrailingFields)) - TrailingFields)
        \o TakeLast(fields, TrailingFields)

\* RightAlign padding at the end of the row, as a plain CSV reader would
RightAlignPadAtEnd(fields, expected_cols) ==
    fields \o Padding(expected_cols - Len(fields))

\* RightAlign keeping two trailing fields instead of three
RightAlignKeepTwo(fields, expected_cols) ==
    DropLast(fields, 2)
        \o Padding(expected_cols - Len(fields))
        \o TakeLast(fields, 2)

\* the branch "len(fields) < expected_cols"
RightAlign(fields, expected_cols) ==
    DropLast(fields, TrailingFields)
        \o Padding(expected_cols - Len(fields))
        \o TakeLast(fields, TrailingFields)

\* the branch "len(fields) > expected_cols"
Truncate(fields, expected_cols) == SubSeq(fields, 1, expected_cols)

\* the if / elif of the row loop
RepairFields(fields, expected_cols) ==
    IF Len(fields) < expected_cols THEN RightAlign(fields, expected_cols)
    ELSE IF Len(fields) > expected_cols THEN Truncate(fields, expected_cols)
    ELSE fields

\* the whole row loop over lines[1:]
ParseRows(ls, expected_cols) ==
    [k \in 1..(Len(ls) - 1) |-> RepairFields(SplitFields(ls[k + 1]), expected_cols)]

(***************************************************************************)
(* The typed table (pandas DataFrame)                                      *)
(***************************************************************************)
\* pd.NA / NaN / None inside a table
NA == <<"<NA>">>

\* a DataFrame is [kind, columns, index, data]: index holds the row labels
\* (RangeIndex 0..n-1 at load, kept by .copy() and by boolean selection) and
\* data[k][c] is the cell of row k in column c.  None is the Python None.
None == [kind |-> "None", columns |-> <<>>, index |-> <<>>, data |-> <<>>]

AccountID == <<"AccountID">>
ResourceID == <<"ResourceID">>
Service == <<"Service">>
Region == <<"Region">>
Department == <<"Department">>
Project == <<"Project">>
Environment == <<"Environment">>
Owner == <<"Owner">>
CostCenter == <<"CostCenter">>
CreatedBy == <<"CreatedBy">>
MonthlyCostUSD == <<"MonthlyCostUSD">>
Tagged == <<"Tagged">>
Yes == <<"Yes">>
No == <<"No">>
All == <<"All">>

\* the numerals of the model and the float each one parses to
NumValue ==
    ("100" :> 100) @@ ("100.00" :> 100) @@ ("100.0" :> 100)
    @@ ("50" :> 50) @@ ("50.00" :> 50) @@ ("50.0" :> 50)
    @@ ("70" :> 70) @@ ("70.0" :> 70)

\* repr of a float, as pandas prints it
FloatRepr(n) == CASE n = 100 -> "100.0" [] n = 50 -> "50.0" [] n = 70 -> "70.0"

\* ToNumeric taking a cell wrapped in double quotes for the number inside
ToNumericUnquoting(cell) ==
    IF Len(Unquote(cell)) = 1 /\ Unquote(cell)[1] \in DOMAIN NumValue
    THEN <<FloatRepr(NumValue[Unquote(cell)[1]])>>
    ELSE NA

\* pd.to_numeric(..., errors='coerce') on one cell: a float (held as its repr)
\* or NaN
ToNumeric(cell) ==
    IF Len(cell) = 1 /\ cell[1] \in DOMAIN NumValue
    THEN <<FloatRepr(NumValue[cell[1]])>>
    ELSE NA

\* the float held by a MonthlyCostUSD cell; sum() skips NaN
CostOf(cell) == IF cell = NA THEN 0 ELSE NumValue[cell[1]]

\* TypedCell without the str.strip() of line 84
TypedCellUnstripped(col, field) ==
    LET v == IF field = <<>> THEN NA ELSE field
    IN  IF col = MonthlyCostUSD THEN ToNumeric(v) ELSE v

\* df[col].str.strip(), then df.replace('', pd.NA), then the numeric coercion
\* of the MonthlyCostUSD column
TypedCell(col, field) ==
    LET s == Strip(field)
        v == IF s = <<>> THEN NA ELSE s
    IN  IF col = MonthlyCostUSD THEN ToNumeric(v) ELSE v

HasDuplicates(names) ==
    \E a, b \in 1..Len(names) : a # b /\ names[a] = names[b]

\* pd.DataFrame(data_rows, columns=headers) and the clean-up that follows it.
\* With a repeated column name df[col] is a DataFrame, df[col].dtype raises
\* AttributeError and the except branch returns None.
BuildFrame(hdrs, rows) ==
    IF HasDuplicates(hdrs) THEN None
    ELSE [kind |-> "DataFrame",
          columns |-> hdrs,
          index |-> [k \in 1..Len(rows) |-> k - 1],
          data |-> [k \in 1..Len(rows) |->
                       [c \in 1..Len(hdrs) |-> TypedCell(hdrs[c], rows[k][c])]]]

\* load_data(file)
LoadData(text) ==
    LET ls == SplitLines(text)
        hdrs == ParseHeader(ls[1])
    IN  BuildFrame(hdrs, ParseRows(ls, Len(hdrs)))

\* df.empty
IsEmpty(frame) == Len(frame.columns) = 0 \/ Len(frame.data) = 0

HasColumn(frame, col) == \E c \in 1..Len(frame.columns) : frame.columns[c] = col
ColIndex(frame, col) == CHOOSE c \in 1..Len(frame.columns) : frame.columns[c] = col
\* position of the row labelled idx
RowPos(frame, idx) == CHOOSE k \in 1..Len(frame.index) : frame.index[k] = idx
HasRow(frame, idx) == \E k \in 1..Len(frame.index) : frame.index[k] = idx
\* frame.at[idx, col]
At(frame, idx, col) == frame.data[RowPos(frame, idx)][ColIndex(frame, col)]
Labels(frame) == {frame.index[k] : k \in 1..Len(frame.index)}

(***************************************************************************)
(* ParserSpec: load_data followed line by line on every text of a bounded   *)
(* family                                                                  *)
(***************************************************************************)
MaxBodyLen == 5

BodyTokens == {COMMA, QUOTE, BLANK, NEWLINE, "v1", "v4", "v5"}

TokenSeqs(n) == UNION {[1..k -> BodyTokens] : k \in 0..n}

\* the header lines tried; with the empty one the first line of the body is
\* the header
HeaderLines ==
    { <<"A", COMMA, "B", COMMA, "C", COMMA, "D", COMMA, "E">>,
      <<"A", COMMA, "MonthlyCostUSD", COMMA, "C", COMMA, "D">>,
      <<>> }

\* the texts handed to load_data, the empty file among them
ParserInputs ==
    {h \o <<NEWLINE>> \o b : h \in HeaderLines, b \in TokenSeqs(MaxBodyLen)}
        \cup {<<>>}

\* every sidebar select box at its first option
AllSelected ==
    [service |-> All, region |-> All, department |-> All,
     environment |-> All, tagged |-> All]

NoFlags == [has_dept |-> FALSE, has_project |-> FALSE, has_owner |-> FALSE]

\* the Apply handler is not running
HandlerIdle ==
    /\ step = "idle"
    /\ row_no = 0
    /\ col_no = 0
    /\ flags = NoFlags

SessionIdle ==
    /\ HandlerIdle
    /\ uploaded_file = 0
    /\ df = None
    /\ original_df = None
    /\ df_edited = None
    /\ task_set = "Overview"
    /\ selected = AllSelected
    /\ edited_data = None
    /\ changes_made = 0
    /\ n_proposed = 0
    /\ last_op = "start"
    /\ filtered_df = None
    /\ passes = <<>>

ParserInit ==
    /\ content \in ParserInputs
    /\ lines = <<>>
    /\ headers = <<>>
    /\ data_rows = <<>>
    /\ line_no = 0
    /\ pc = "start"
    /\ loaded = None
    /\ SessionIdle

\* lines 37-46: split the text, take the header
ReadHeader ==
    /\ pc = "start"
    /\ lines' = SplitLines(content)
    /\ headers' = ParseHeader(SplitLines(content)[1])
    /\ line_no' = 1
    /\ pc' = "rows"
    /\ UNCHANGED <<content, data_rows, loaded>>
    /\ UNCHANGED session_vars

\* the fields of the line the loop is at
CurrentFields == SplitFields(lines[line_no + 1])

NextLine(fields) ==
    /\ data_rows' = Append(data_rows, fields)
    /\ line_no' = line_no + 1
    /\ UNCHANGED <<content, lines, headers, pc, loaded>>
    /\ UNCHANGED session_vars

\* lines 62-71: a short row is right-aligned
RepairShortRow ==
    /\ pc = "rows"
    /\ line_no <= Len(lines) - 1
    /\ Len(CurrentFields) < Len(headers)
    /\ NextLine(RightAlign(CurrentFields, Len(headers)))

\* lines 74-75: a long row is truncated
TruncateLongRow ==
    /\ pc = "rows"
    /\ line_no <= Len(lines) - 1
    /\ Len(CurrentFields) > Len(headers)
    /\ NextLine(Truncate(CurrentFields, Len(headers)))

\* line 77 alone: a row of the right length is taken as it is
KeepFullRow ==
    /\ pc = "rows"
    /\ line_no <= Len(lines) - 1
    /\ Len(CurrentFields) = Len(headers)
    /\ NextLine(CurrentFields)

\* lines 79-101: the table, or None from the except branch
FinishLoad ==
    /\ pc = "rows"
    /\ line_no > Len(lines) - 1
    /\ loaded' = BuildFrame(headers, data_rows)
    /\ pc' = "done"
    /\ UNCHANGED <<content, lines, headers, data_rows, line_no>>
    /\ UNCHANGED session_vars

ParserNext ==
    \/ ReadHeader
    \/ RepairShortRow
    \/ TruncateLongRow
    \/ KeepFullRow
    \/ FinishLoad

ParserSpec == ParserInit /\ [][ParserNext]_vars

\* the line-by-line run ends in what load_data returns
StepwiseAgreesWithLoadData == pc = "done" => loaded = LoadData(content)

(***************************************************************************)
(* Claims about the Row Repair Parser (checked under ParserSpec)           *)
(***************************************************************************)
\* the fields of the k-th data line as split, before any repair
SourceFields(k) == SplitFields(lines[k + 1])

\* C2: every data row the parser emits has exactly N = len(headers) fields,
\* whether its source line had fewer, exactly or more than N fields, and a
\* table that is returned has N cells in every row
C2_RowsHaveSchemaLength ==
    /\ \A k \in 1..Len(data_rows) : Len(data_rows[k]) = Len(headers)
    /\ (pc = "done" /\ loaded # None) =>
          /\ Len(loaded.data) = Len(lines) - 1
          /\ \A k \in 1..Len(loaded.data) : Len(loaded.data[k]) = Len(loaded.columns)

\* a finished load of a file holding a line with fewer than three fields
\* that was repaired and a table was returned
C2_Witness ==
    /\ pc = "done"
    /\ loaded # None
    /\ \E k \in 1..Len(data_rows) :
          /\ Len(SourceFields(k)) < TrailingFields
          /\ Len(SourceFields(k)) < Len(headers)

\* the example of the right-alignment rule
ExampleText ==
    <<"A", COMMA, "B", COMMA, "C", COMMA, "D", COMMA, "E", NEWLINE,
      "v1", COMMA, "v4", COMMA, "v5">>

\* C7 as claimed: header A,B,C,D,E and the short row v1,v4,v5 give the
\* repaired row [v1, "", "", v4, v5], the two empty fields landing at B and C
C7_ExampleAsClaimed ==
    (content = ExampleText /\ pc = "done") =>
        data_rows = << << <<"v1">>, <<>>, <<>>, <<"v4">>, <<"v5">> >> >>

\* C7 amended: header A,B,C,D,E and the short row v1,v4,v5 give the repaired
\* row ["", "", v1, v4, v5]: the three source fields are the trailing three,
\* so they land at C, D and E and the two empty fields land at A and B (not
\* at the end), which the loader then turns into missing cells
C7_RightAlignExample ==
    (content = ExampleText /\ pc = "done") =>
        /\ headers = << <<"A">>, <<"B">>, <<"C">>, <<"D">>, <<"E">> >>
        /\ data_rows = << << <<>>, <<>>, <<"v1">>, <<"v4">>, <<"v5">> >> >>
        /\ loaded.data = << << NA, NA, <<"v1">>, <<"v4">>, <<"v5">> >> >>

C7_Witness == content = ExampleText /\ pc = "done" /\ Len(data_rows) = 1

\* C8: a row with 3 <= len(fields) < N keeps its leading len(fields)-3 fields
\* in place, has its last three fields in the last three columns and has only
\* empty strings between them
C8_RepairRule ==
    \A k \in 1..Len(data_rows) :
        LET f == SourceFields(k)
            n == Len(headers)
            row == data_rows[k]
        IN  (TrailingFields <= Len(f) /\ Len(f) < n) =>
                /\ Len(row) = n
                /\ \A j \in 1..(Len(f) - TrailingFields) : row[j] = f[j]
                /\ \A j \in (Len(f) - TrailingFields + 1)..(n - TrailingFields) :
                      row[j] = <<>>
                /\ \A j \in 1..TrailingFields :
                      row[n - TrailingFields + j] = f[Len(f) - TrailingFields + j]

\* a repaired row of four source fields under a five-column header whose
\* leading field and trailing fields are not empty
C8_Witness ==
    /\ pc = "done"
    /\ \E k \in 1..Len(data_rows) :
          /\ Len(SourceFields(k)) = 4
          /\ Len(headers) = 5
          /\ SourceFields(k)[1] # <<>>
          /\ SourceFields(k)[4] # <<>>
          /\ data_rows[k][2] = <<>>

\* C9 as claimed: a file holding a data row with fewer than three fields (and
\* fewer than N) is never loaded: load_data returns no table
C9_ShortRowIsFatal ==
    (pc = "done"
        /\ \E k \in 1..Len(data_rows) :
              /\ Len(SourceFields(k)) < TrailingFields
              /\ Len(SourceFields(k)) < Len(headers))
    => loaded = None

(***************************************************************************)
(* The session: uploads, sidebar, Task 5 remediation (Spec)                *)
(***************************************************************************)
RECURSIVE JoinWith(_, _)
\* sep.join(parts)
JoinWith(parts, sep) ==
    IF Len(parts) = 0 THEN <<>>
    ELSE IF Len(parts) = 1 THEN parts[1]
    ELSE parts[1] \o <<sep>> \o JoinWith(Tail(parts), sep)

\* a text file from its lines, each line given as its fields
CsvText(rows) ==
    JoinWith([k \in 1..Len(rows) |-> JoinWith(rows[k], COMMA)], NEWLINE)

\* csv.QUOTE_MINIMAL: a field holding a quote, a comma or a newline is written
\* in double quotes
NeedsQuoting(field) ==
    \E k \in 1..Len(field) : field[k] \in {QUOTE, COMMA, NEWLINE}

RECURSIVE DoubleQuotes(_)
\* every double quote of a quoted field is written twice
DoubleQuotes(field) ==
    IF field = <<>> THEN <<>>
    ELSE (IF Head(field) = QUOTE THEN <<QUOTE, QUOTE>> ELSE <<Head(field)>>)
             \o DoubleQuotes(Tail(field))

\* one cell as to_csv writes it: nothing for a missing cell, the repr of a
\* float, the text of a string
CsvField(cell) ==
    IF cell = NA THEN <<>>
    ELSE IF NeedsQuoting(cell) THEN <<QUOTE>> \o DoubleQuotes(cell) \o <<QUOTE>>
    ELSE cell

\* one line of the export; a row that is a single empty field is written ""
CsvLine(cells) ==
    IF Len(cells) = 1 /\ CsvField(cells[1]) = <<>> THEN <<QUOTE, QUOTE>>
    ELSE JoinWith([c \in 1..Len(cells) |-> CsvField(cells[c])], COMMA)

RECURSIVE EndLines(_)
\* every line of the export ends with a newline
EndLines(ls) ==
    IF ls = <<>> THEN <<>> ELSE Head(ls) \o <<NEWLINE>> \o EndLines(Tail(ls))

\* frame.to_csv(csv_buffer, index=False): the header line, then the rows
ToCsv(frame) ==
    EndLines(<<CsvLine(frame.columns)>>
                 \o [k \in 1..Len(frame.data) |-> CsvLine(frame.data[k])])

\* the files the analyst may put into the uploader
\* File 1: the scenario header; r1 untagged with no tags, r2 tagged, r3
\* untagged although Department, Project and Owner are filled
File1 ==
    CsvText(<<
      <<ResourceID, Service, Department, Project, Owner, MonthlyCostUSD, Tagged>>,
      << <<"r1">>, <<"EC2">>, <<>>, <<>>, <<>>, <<"100.00">>, No>>,
      << <<"r2">>, <<"S3">>, <<"Eng">>, <<"Apollo">>, <<"jdoe">>, <<"50.00">>, Yes>>,
      << <<"r3">>, <<"EC2">>, <<"Eng">>, <<"Apollo">>, <<"jdoe">>, <<"70">>, No>> >>)

\* File 2: another schema; r5 is a short row (7 of 10 fields) that the loader
\* right-aligns, leaving Environment, Owner and CostCenter missing
File2 ==
    CsvText(<<
      <<ResourceID, Service, Department, Project, Environment, Owner, CostCenter,
        CreatedBy, MonthlyCostUSD, Tagged>>,
      << <<"r5">>, <<"S3">>, <<"Eng">>, <<"Apollo">>, <<"tf">>, <<"70">>, No>>,
      << <<"r6">>, <<"EC2">>, <<"Eng">>, <<"Apollo">>, <<"Prod">>, <<"jdoe">>,
         <<"CC1">>, <<"tf">>, <<"50">>, Yes>> >>)

\* File 3: no Tagged column
File3 ==
    CsvText(<<
      <<ResourceID, Service, MonthlyCostUSD>>,
      << <<"r9">>, <<"EC2">>, <<"100">> >> >>)

\* File 4: a header and no data row
File4 == CsvText(<< <<ResourceID, Service, MonthlyCostUSD, Tagged>> >>)

\* File 5: a repeated column name
File5 ==
    CsvText(<<
      <<ResourceID, Service, Service, MonthlyCostUSD, Tagged>>,
      << <<"r1">>, <<"EC2">>, <<"EC2">>, <<"100">>, No>> >>)

\* File 6: two rows whose cost fields are wrapped in double quotes
File6 ==
    CsvText(<<
      <<ResourceID, Service, Department, Project, Owner, MonthlyCostUSD, Tagged>>,
      << <<"r1">>, <<"EC2">>, <<>>, <<>>, <<>>, <<QUOTE, "100.00", QUOTE>>, No>>,
      << <<"r2">>, <<"S3">>, <<"Eng">>, <<"Apollo">>, <<"jdoe">>,
         <<QUOTE, "50.00", QUOTE>>, Yes>> >>)

\* File 7: the same two rows with bare cost fields
File7 ==
    CsvText(<<
      <<ResourceID, Service, Department, Project, Owner, MonthlyCostUSD, Tagged>>,
      << <<"r1">>, <<"EC2">>, <<>>, <<>>, <<>>, <<"100.00">>, No>>,
      << <<"r2">>, <<"S3">>, <<"Eng">>, <<"Apollo">>, <<"jdoe">>, <<"50.00">>, Yes>> >>)

\* File 8: one row whose Department field is wrapped in double quotes
File8 ==
    CsvText(<<
      <<ResourceID, Service, Department, Project, Owner, MonthlyCostUSD, Tagged>>,
      << <<"r7">>, <<"EC2">>, <<QUOTE, "Eng", QUOTE>>, <<"Apollo">>, <<"jdoe">>,
         <<"100.00">>, No>> >>)

\* File 9: Department is the only gate column of the schema
File9 ==
    CsvText(<<
      <<ResourceID, Service, Department, MonthlyCostUSD, Tagged>>,
      << <<"r1">>, <<"EC2">>, <<>>, <<"100">>, No>>,
      << <<"r2">>, <<"S3">>, <<"Eng">>, <<"50">>, No>> >>)

\* File 10: no Department, Project or Owner column
File10 ==
    CsvText(<<
      <<ResourceID, Service, MonthlyCostUSD, Tagged>>,
      << <<"r1">>, <<"EC2">>, <<"100">>, No>>,
      << <<"r2">>, <<"S3">>, <<"50">>, No>>,
      << <<"r3">>, <<"S3">>, <<"70">>, Yes>> >>)

Files == <<File1, File2, File3, File4, File5, File6, File7, File8, File9, File10>>

\* the files uploaded under Spec and the ones uploaded under ScenarioSpec
LabFiles == {1, 2, 3, 4, 5}
ScenarioFiles == {6, 7, 8, 9, 10}

\* load_data of every file (st.cache_data: one result per file)
Loaded == [f \in 1..Len(Files) |-> LoadData(Files[f])]

\* the value the analyst types into a cell of a column; clearing a cell gives NA
EditValues(col) ==
    CASE col = Department -> { <<"Eng">> }
      [] col = Project -> { <<"Apollo">> }
      [] col = Owner -> { <<"jdoe">> }
      [] col = Environment -> { <<"Prod">> }
      [] col = CostCenter -> { <<"CC1">> }
      [] OTHER -> { <<"x">> }

\* how many cells the analyst changes in the editor before pressing Apply
MaxEdits == 2

required_columns == <<ResourceID, Service, MonthlyCostUSD, Tagged>>

disabled_columns ==
    {AccountID, ResourceID, Service, Region, MonthlyCostUSD, CreatedBy, Tagged}

Overview == "Overview"
Task5 == "Task 5: Tag Remediation"
TaskSets == {Overview, Task5}

\* lines 113-114
MissingColumns(frame) ==
    {required_columns[k] : k \in 1..Len(required_columns)}
        \ {frame.columns[c] : c \in 1..Len(frame.columns)}

\* the values of one column
ColumnValues(frame, col) ==
    {frame.data[k][ColIndex(frame, col)] : k \in 1..Len(frame.data)}

\* sorted(df[col].unique().tolist()) raises TypeError when the list mixes pd.NA
\* with strings (the comparison with pd.NA has no truth value)
SortFails(frame, col) ==
    /\ HasColumn(frame, col)
    /\ NA \in ColumnValues(frame, col)
    /\ ColumnValues(frame, col) # {NA}

\* lines 104-107 and 112-166: the script gets as far as the sidebar and the
\* pages: a table was loaded, is not empty, has the required columns, and the
\* option lists of the Service and Region boxes could be sorted
PagesShown(frame) ==
    /\ frame # None
    /\ ~IsEmpty(frame)
    /\ MissingColumns(frame) = {}
    /\ ~SortFails(frame, Service)
    /\ ~SortFails(frame, Region)

\* lines 139-166: the options of each select box
Options(frame, which) ==
    CASE which = "service" -> {All} \cup ColumnValues(frame, Service)
      [] which = "region" ->
            IF HasColumn(frame, Region)
            THEN {All} \cup ColumnValues(frame, Region) ELSE {All}
      [] which = "department" ->
            IF HasColumn(frame, Department)
            THEN {All} \cup (ColumnValues(frame, Department) \ {NA}) ELSE {All}
      [] which = "environment" ->
            IF HasColumn(frame, Environment)
            THEN {All} \cup (ColumnValues(frame, Environment) \ {NA}) ELSE {All}
      [] which = "tagged" -> {All, Yes, No}

FilterNames == {"service", "region", "department", "environment", "tagged"}

\* a select box keeps its value across script runs while the value is still
\* among its options, and shows its first option ('All') otherwise
KeepSelection(frame, sel) ==
    [w \in FilterNames |-> IF sel[w] \in Options(frame, w) THEN sel[w] ELSE All]

\* frame[frame[col] == value]: the rows kept, labels and order preserved
\* (a missing cell equals no value)
WhereEquals(frame, col, value) ==
    LET c == ColIndex(frame, col)
        RECURSIVE Pick(_)
        Pick(k) ==
            IF k > Len(frame.data) THEN <<>>
            ELSE IF frame.data[k][c] = value THEN <<k>> \o Pick(k + 1)
            ELSE Pick(k + 1)
        order == Pick(1)
    IN  [frame EXCEPT !.index = [j \in 1..Len(order) |-> frame.index[order[j]]],
                      !.data = [j \in 1..Len(order) |-> frame.data[order[j]]]]

\* one "if selected_x != 'All' and col in columns" step
FilterStep(frame, choice, col) ==
    IF choice # All /\ HasColumn(frame, col)
    THEN WhereEquals(frame, col, choice) ELSE frame

\* FilterView narrowing st.session_state.df_edited, once there is one, in
\* place of df
FilterViewOfEdited(frame, sel) ==
    FilterStep(
        FilterStep(
            FilterStep(
                FilterStep(
                    FilterStep(IF df_edited # None THEN df_edited ELSE frame,
                               sel.service, Service),
                    sel.region, Region),
                sel.department, Department),
            sel.environment, Environment),
        sel.tagged, Tagged)

\* FilterView without the Tagged step
FilterViewSkipsTagged(frame, sel) ==
    FilterStep(
        FilterStep(
            FilterStep(
                FilterStep(frame, sel.service, Service),
                sel.region, Region),
            sel.department, Department),
        sel.environment, Environment)

\* lines 168-184: filtered_df, the rows of df that pass the five select boxes
FilterView(frame, sel) ==
    FilterStep(
        FilterStep(
            FilterStep(
                FilterStep(
                    FilterStep(frame, sel.service, Service),
                    sel.region, Region),
                sel.department, Department),
            sel.environment, Environment),
        sel.tagged, Tagged)

\* lines 441-442: the tag columns the table has
existing_tag_fields(frame) ==
    LET Present(col) == HasColumn(frame, col)
    IN  SelectSeq(<<Department, Project, Environment, Owner, CostCenter>>, Present)

\* lines 499 and 502: the columns of the untagged-resources table
display_cols(frame) ==
    LET Present(col) == HasColumn(frame, col)
    IN  SelectSeq(<<ResourceID, Service, Region>> \o existing_tag_fields(frame)
                      \o <<MonthlyCostUSD>>, Present)

\* frame[cols]: the columns cols of every row, in the order of cols
SelectColumns(frame, cols) ==
    [frame EXCEPT !.columns = cols,
                  !.data = [k \in 1..Len(frame.data) |->
                               [c \in 1..Len(cols) |->
                                   frame.data[k][ColIndex(frame, cols[c])]]]]

\* lines 501-503: untagged_resources, the table Task 3.5 exports
UntaggedResources(view) ==
    SelectColumns(WhereEquals(view, Tagged, No), display_cols(view))

RECURSIVE SumCosts(_)
\* Series.sum() of MonthlyCostUSD cells
SumCosts(cells) ==
    IF cells = <<>> THEN 0 ELSE CostOf(Head(cells)) + SumCosts(Tail(cells))

\* frame['MonthlyCostUSD'].sum()
TotalCost(frame) ==
    SumCosts([k \in 1..Len(frame.data) |->
                 frame.data[k][ColIndex(frame, MonthlyCostUSD)]])

\* frame.groupby('Tagged')['MonthlyCostUSD'].sum().get(status, 0), which is
\* also frame[frame['Tagged'] == status]['MonthlyCostUSD'].sum()
CostByTagged(frame, status) == TotalCost(WhereEquals(frame, Tagged, status))

\* (k / n) * 100, held in hundredths of a percent; with n = 0 the division
\* gives no number (ZeroDivisionError, or nan for numpy operands)
Ratio(k, n) ==
    IF n = 0 THEN [ok |-> FALSE, value |-> 0]
    ELSE [ok |-> TRUE, value |-> (k * 10000) \div n]

\* the "else 0" of the guarded percentages
ZeroPct == [ok |-> TRUE, value |-> 0]

\* frame[col].value_counts().get(value, 0)
CountWhere(frame, col, value) == Len(WhereEquals(frame, col, value).data)

\* frame.isnull().sum()[col]
MissingCount(frame, col) ==
    Cardinality({k \in 1..Len(frame.data) : frame.data[k][ColIndex(frame, col)] = NA})

\* line 209
TaggedPct(view) ==
    IF Len(view.data) > 0
    THEN Ratio(CountWhere(view, Tagged, Yes), Len(view.data)) ELSE ZeroPct

\* lines 287-289 and 310
UntaggedPct(view) ==
    IF Len(view.data) > 0
    THEN Ratio(CountWhere(view, Tagged, No), Len(view.data)) ELSE ZeroPct

\* lines 249-254 and 475-480, for one column
MissingPct(view, col) ==
    IF Len(view.data) > 0
    THEN Ratio(MissingCount(view, col), Len(view.data)) ELSE ZeroPct

\* UntaggedCostPct without the "if total_cost > 0" guard
UntaggedCostPctUnguarded(view) ==
    Ratio(CostByTagged(view, No), TotalCost(view))

\* line 355
UntaggedCostPct(view) ==
    IF TotalCost(view) > 0
    THEN Ratio(CostByTagged(view, No), TotalCost(view)) ELSE ZeroPct

\* UntaggedView without the sidebar filters
UntaggedViewIgnoresFilters(frame, sel) == WhereEquals(frame, Tagged, No)

\* UntaggedView without the untagged mask
UntaggedViewOffersAll(frame, sel) ==
    FilterStep(
        FilterStep(
            FilterStep(
                FilterStep(frame, sel.service, Service),
                sel.region, Region),
            sel.department, Department),
        sel.environment, Environment)

\* lines 642-655: the untagged rows of df_edited that pass the sidebar filters
\* Service, Region, Department and Environment
UntaggedView(frame, sel) ==
    FilterStep(
        FilterStep(
            FilterStep(
                FilterStep(WhereEquals(frame, Tagged, No), sel.service, Service),
                sel.region, Region),
            sel.department, Department),
        sel.environment, Environment)

\* frame.at[idx, col] = value, for a label and a column the frame has
SetAt(frame, idx, col, value) ==
    [frame EXCEPT !.data[RowPos(frame, idx)][ColIndex(frame, col)] = value]

\* EditableCells of an editor with no disabled column
EditableCellsAll(view) ==
    {<<view.index[k], view.columns[c]>> :
        k \in 1..Len(view.index), c \in 1..Len(view.columns)}

\* the cells of the editor the analyst can change: every shown row, every
\* column that is not disabled
EditableCells(view) ==
    {<<view.index[k], view.columns[c]>> :
        k \in 1..Len(view.index),
        c \in {c0 \in 1..Len(view.columns) : view.columns[c0] \notin disabled_columns}}

\* a proposed batch gives new values to some editable cells; a cell counts as
\* changed only when its new value differs from the shown one
Batches(view) ==
    {b \in UNION {[cells -> UNION {EditValues(cell[2]) : cell \in cells} \cup {NA}] :
                     cells \in {cs \in SUBSET EditableCells(view) :
                                   Cardinality(cs) <= MaxEdits}} :
        \A cell \in DOMAIN b :
            /\ b[cell] \in EditValues(cell[2]) \cup {NA}
            /\ b[cell] # At(view, cell[1], cell[2])}

\* lines 664-670: what st.data_editor returns for the shown rows and the batch
EditorResult(view, batch) ==
    [view EXCEPT !.data =
        [k \in 1..Len(view.data) |->
            [c \in 1..Len(view.columns) |->
                IF <<view.index[k], view.columns[c]>> \in DOMAIN batch
                THEN batch[<<view.index[k], view.columns[c]>>]
                ELSE view.data[k][c]]]]

\* GateField taking an absent column for a missing value
GateFieldRequiresColumn(ed, k, col) ==
    IF HasColumn(ed, col) THEN ed.data[k][ColIndex(ed, col)] # NA ELSE FALSE

\* "pd.notna(row.get(col, None)) if col in row else True"
GateField(ed, k, col) ==
    IF HasColumn(ed, col) THEN ed.data[k][ColIndex(ed, col)] # NA ELSE TRUE

\* lines 692-694 and 701: the auto-tag gate of one editor row
GateOpenKeyOnAny(ed, k) ==
    GateField(ed, k, Department) \/ GateField(ed, k, Project) \/ GateField(ed, k, Owner)

GateOpenAllFive(ed, k) ==
    /\ GateField(ed, k, Department)
    /\ GateField(ed, k, Project)
    /\ GateField(ed, k, Owner)
    /\ GateField(ed, k, Environment)
    /\ GateField(ed, k, CostCenter)

GateOpen(ed, k) ==
    /\ GateField(ed, k, Department)
    /\ GateField(ed, k, Project)
    /\ GateField(ed, k, Owner)

RECURSIVE WriteColumns(_, _, _, _)
\* lines 697-698: for col in edited_data.columns: df_edited.at[idx, col] = row[col]
WriteColumns(frame, ed, k, c) ==
    IF c > Len(ed.columns) THEN frame
    ELSE WriteColumns(SetAt(frame, ed.index[k], ed.columns[c], ed.data[k][c]),
                      ed, k, c + 1)

\* ApplyRow counting every row it wrote, tagged or not
ApplyRowCountsWrites(st, ed, k) ==
    LET written == WriteColumns(st.frame, ed, k, 1)
    IN  IF GateOpen(ed, k)
        THEN [frame |-> SetAt(written, ed.index[k], Tagged, Yes),
              count |-> st.count + 1]
        ELSE [frame |-> written, count |-> st.count + 1]

\* lines 690-703 for one row of edited_data: write, then tag and count
ApplyRow(st, ed, k) ==
    LET written == WriteColumns(st.frame, ed, k, 1)
    IN  IF GateOpen(ed, k)
        THEN [frame |-> SetAt(written, ed.index[k], Tagged, Yes),
              count |-> st.count + 1]
        ELSE [frame |-> written, count |-> st.count]

RECURSIVE ApplyRows(_, _, _)
\* the loop "for idx, row in edited_data.iterrows()"
ApplyRows(st, ed, k) ==
    IF k > Len(ed.data) THEN st
    ELSE ApplyRows(ApplyRow(st, ed, k), ed, k + 1)

\* ApplyChanges reporting every offered row
ApplyChangesCountsOffered(frame, ed) ==
    [frame |-> ApplyRows([frame |-> frame, count |-> 0], ed, 1).frame,
     count |-> Len(ed.data)]

\* lines 689-703: [frame, count] after the whole loop
ApplyChanges(frame, ed) == ApplyRows([frame |-> frame, count |-> 0], ed, 1)

\* StoreOriginal without the "is None" test
StoreOriginalEveryRun(frame) == frame

\* InitEdited without the "is None" test
InitEditedEveryRun(frame) == frame

\* lines 108-110
StoreOriginal(frame) == IF original_df = None THEN frame ELSE original_df

\* lines 633-634
InitEdited(frame) == IF df_edited = None THEN frame ELSE df_edited

\* ScriptRun dropping original_df when no table is stored
ScriptRunClearsOnFailure(f, t, sel) ==
    LET frame == IF f = 0 THEN None ELSE Loaded[f]
        stored == frame # None /\ ~IsEmpty(frame)
        shown == PagesShown(frame)
    IN  /\ uploaded_file' = f
        /\ df' = frame
        /\ original_df' = IF stored THEN StoreOriginal(frame) ELSE None
        /\ task_set' = IF shown THEN t ELSE Overview
        /\ selected' = IF shown THEN KeepSelection(frame, sel) ELSE AllSelected
        /\ df_edited' = IF shown /\ t = Task5 THEN InitEdited(frame) ELSE df_edited
        /\ edited_data' = None
        /\ changes_made' = 0
        /\ n_proposed' = 0
        /\ last_op' = "rerun"
        /\ filtered_df' = IF shown THEN FilterView(frame, KeepSelection(frame, sel))
                          ELSE None
        /\ passes' = <<>>
        /\ UNCHANGED handler_vars
        /\ UNCHANGED parser_vars

\* One script run without a press of the Apply button, for the uploader
\* holding file f (0: none), the radio at t and the select boxes at sel.
\* Widgets that are not drawn in a run lose their state.
ScriptRun(f, t, sel) ==
    LET frame == IF f = 0 THEN None ELSE Loaded[f]
        stored == frame # None /\ ~IsEmpty(frame)
        shown == PagesShown(frame)
    IN  /\ uploaded_file' = f
        /\ df' = frame
        /\ original_df' = IF stored THEN StoreOriginal(frame) ELSE original_df
        /\ task_set' = IF shown THEN t ELSE Overview
        /\ selected' = IF shown THEN KeepSelection(frame, sel) ELSE AllSelected
        /\ df_edited' = IF shown /\ t = Task5 THEN InitEdited(frame) ELSE df_edited
        /\ edited_data' = None
        /\ changes_made' = 0
        /\ n_proposed' = 0
        /\ last_op' = "rerun"
        /\ filtered_df' = IF shown THEN FilterView(frame, KeepSelection(frame, sel))
                          ELSE None
        /\ passes' = <<>>
        /\ UNCHANGED handler_vars
        /\ UNCHANGED parser_vars

\* the analyst puts another file into the uploader
Upload ==
    \E f \in LabFiles :
        /\ f # uploaded_file
        /\ ScriptRun(f, task_set, selected)

\* the analyst removes the file from the uploader
RemoveFile ==
    /\ uploaded_file # 0
    /\ ScriptRun(0, task_set, selected)

\* the analyst picks a page in the sidebar radio
SelectTask ==
    \E t \in TaskSets :
        /\ PagesShown(df)
        /\ t # task_set
        /\ ScriptRun(uploaded_file, t, selected)

\* the select boxes whose value reaches the remediation page (lines 648-655);
\* the Tagged box only narrows filtered_df (line 183), which no session state
\* is computed from, and stays at 'All' in this specification
RemediationFilters == {"service", "region", "department", "environment"}

\* the analyst changes one sidebar select box
SelectFilter ==
    \E w \in RemediationFilters : \E v \in Options(df, w) :
        /\ PagesShown(df)
        /\ v # selected[w]
        /\ ScriptRun(uploaded_file, task_set, [selected EXCEPT ![w] = v])

\* the "Reset All Filters" button: st.rerun() and nothing else
ResetFilters ==
    /\ PagesShown(df)
    /\ last_op # "rerun"
    /\ ScriptRun(uploaded_file, task_set, selected)

\* the analyst changes the cells of batch in the editor and presses "Apply
\* Changes and Update Tagged Status" (lines 686-711, then the rerun)
Apply ==
    /\ PagesShown(df)
    /\ task_set = Task5
    /\ df_edited # None
    /\ LET view == UntaggedView(df_edited, selected)
       IN  /\ Len(view.data) > 0
           /\ \E batch \in Batches(view) :
                LET ed == EditorResult(view, batch)
                    done == ApplyChanges(df_edited, ed)
                IN  /\ df_edited' = done.frame
                    /\ changes_made' = done.count
                    /\ edited_data' = ed
                    /\ n_proposed' = Cardinality(DOMAIN batch)
    /\ filtered_df' = FilterView(df, selected)
    /\ last_op' = "apply"
    /\ UNCHANGED <<uploaded_file, df, original_df, task_set, selected, passes>>
    /\ UNCHANGED handler_vars
    /\ UNCHANGED parser_vars

Init ==
    /\ content = <<>>
    /\ lines = <<>>
    /\ headers = <<>>
    /\ data_rows = <<>>
    /\ line_no = 0
    /\ pc = "idle"
    /\ loaded = None
    /\ SessionIdle

Next ==
    \/ Upload
    \/ RemoveFile
    \/ SelectTask
    \/ SelectFilter
    \/ ResetFilters
    \/ Apply

Spec == Init /\ [][Next]_vars

(***************************************************************************)
(* ScenarioSpec: the same session with the two-row scenario files in the   *)
(* uploader                                                                *)
(***************************************************************************)
ScenarioUpload ==
    \E f \in ScenarioFiles :
        /\ f # uploaded_file
        /\ ScriptRun(f, task_set, selected)

ScenarioNext ==
    \/ ScenarioUpload
    \/ RemoveFile
    \/ SelectTask
    \/ SelectFilter
    \/ ResetFilters
    \/ Apply

ScenarioSpec == Init /\ [][ScenarioNext]_vars

(***************************************************************************)
(* HandlerSpec: one press of the Apply button, its handler (lines 688-711) *)
(* followed statement by statement, on every editor content the analyst    *)
(* can have produced over a freshly copied edited table                    *)
(***************************************************************************)
\* has_dept, has_project, has_owner read from the current table instead of
\* from the editor row
HandlerFlagsFromEdited(k) ==
    LET pos == RowPos(df_edited, edited_data.index[k])
    IN  [has_dept |-> GateField(df_edited, pos, Department),
         has_project |-> GateField(df_edited, pos, Project),
         has_owner |-> GateField(df_edited, pos, Owner)]

\* lines 692-694
HandlerFlags(k) ==
    [has_dept |-> GateField(edited_data, k, Department),
     has_project |-> GateField(edited_data, k, Project),
     has_owner |-> GateField(edited_data, k, Owner)]

HandlerInit ==
    /\ content = <<>>
    /\ lines = <<>>
    /\ headers = <<>>
    /\ data_rows = <<>>
    /\ line_no = 0
    /\ pc = "idle"
    /\ loaded = None
    /\ uploaded_file \in {f \in 1..Len(Files) : PagesShown(Loaded[f])}
    /\ df = Loaded[uploaded_file]
    /\ original_df = df
    /\ df_edited = df
    /\ task_set = Task5
    /\ selected = AllSelected
    /\ filtered_df = df
    /\ passes = <<>>
    /\ Len(UntaggedView(df, selected).data) > 0
    /\ \E batch \in Batches(UntaggedView(df, selected)) :
          /\ edited_data = EditorResult(UntaggedView(df, selected), batch)
          /\ n_proposed = Cardinality(DOMAIN batch)
    /\ changes_made = 0
    /\ last_op = "press"
    /\ step = "row"
    /\ row_no = 1
    /\ col_no = 0
    /\ flags = NoFlags

\* lines 690-694: the loop takes the next editor row and reads its gate fields
ReadFlags ==
    /\ step = "row"
    /\ row_no <= Len(edited_data.data)
    /\ flags' = HandlerFlags(row_no)
    /\ col_no' = 1
    /\ step' = "write"
    /\ UNCHANGED <<uploaded_file, df, original_df, df_edited, task_set, selected,
                   edited_data, changes_made, n_proposed, last_op, filtered_df,
                   passes, row_no>>
    /\ UNCHANGED parser_vars

\* lines 697-698: one column of the row is written into df_edited
WriteCell ==
    /\ step = "write"
    /\ col_no <= Len(edited_data.columns)
    /\ df_edited' = SetAt(df_edited, edited_data.index[row_no],
                          edited_data.columns[col_no],
                          edited_data.data[row_no][col_no])
    /\ col_no' = col_no + 1
    /\ UNCHANGED <<uploaded_file, df, original_df, task_set, selected,
                   edited_data, changes_made, n_proposed, last_op, filtered_df,
                   passes, step, row_no, flags>>
    /\ UNCHANGED parser_vars

\* lines 701-703: every column is written and the three flags hold
MarkTagged ==
    /\ step = "write"
    /\ col_no > Len(edited_data.columns)
    /\ flags.has_dept /\ flags.has_project /\ flags.has_owner
    /\ df_edited' = SetAt(df_edited, edited_data.index[row_no], Tagged, Yes)
    /\ changes_made' = changes_made + 1
    /\ row_no' = row_no + 1
    /\ step' = "row"
    /\ UNCHANGED <<uploaded_file, df, original_df, task_set, selected,
                   edited_data, n_proposed, last_op, filtered_df, passes,
                   col_no, flags>>
    /\ UNCHANGED parser_vars

\* line 701 false: the row stays as written
LeaveUntagged ==
    /\ step = "write"
    /\ col_no > Len(edited_data.columns)
    /\ ~(flags.has_dept /\ flags.has_project /\ flags.has_owner)
    /\ row_no' = row_no + 1
    /\ step' = "row"
    /\ UNCHANGED <<uploaded_file, df, original_df, df_edited, task_set, selected,
                   edited_data, changes_made, n_proposed, last_op, filtered_df,
                   passes, col_no, flags>>
    /\ UNCHANGED parser_vars

\* lines 705-711: the loop is over; the message, then st.rerun() draws the
\* page from the session state
FinishApply ==
    /\ step = "row"
    /\ row_no > Len(edited_data.data)
    /\ step' = "done"
    /\ last_op' = "apply"
    /\ UNCHANGED <<uploaded_file, df, original_df, df_edited, task_set, selected,
                   edited_data, changes_made, n_proposed, filtered_df, passes,
                   row_no, col_no, flags>>
    /\ UNCHANGED parser_vars

HandlerNext ==
    \/ ReadFlags
    \/ WriteCell
    \/ MarkTagged
    \/ LeaveUntagged
    \/ FinishApply

HandlerSpec == HandlerInit /\ [][HandlerNext]_vars

\* the statement-by-statement run ends in what ApplyChanges computes
HandlerAgreesWithApplyChanges ==
    step = "done" =>
        /\ df_edited = ApplyChanges(df, edited_data).frame
        /\ changes_made = ApplyChanges(df, edited_data).count

(***************************************************************************)
(* ViewSpec: the filters of lines 168-184 applied, pass after pass, to the *)
(* tables the pages are shown for                                          *)
(***************************************************************************)
\* how many filter selections are applied one after the other
MaxPasses == 2

\* every way to set the five select boxes over a table
Selections(frame) ==
    {[service |-> a, region |-> b, department |-> c, environment |-> d,
      tagged |-> e] :
        a \in Options(frame, "service"), b \in Options(frame, "region"),
        c \in Options(frame, "department"), d \in Options(frame, "environment"),
        e \in Options(frame, "tagged")}

ViewInit ==
    /\ content = <<>>
    /\ lines = <<>>
    /\ headers = <<>>
    /\ data_rows = <<>>
    /\ line_no = 0
    /\ pc = "idle"
    /\ loaded = None
    /\ uploaded_file \in {f \in 1..Len(Files) : PagesShown(Loaded[f])}
    /\ df = Loaded[uploaded_file]
    /\ original_df = None
    /\ df_edited = None
    /\ task_set = Overview
    /\ selected = AllSelected
    /\ edited_data = None
    /\ changes_made = 0
    /\ n_proposed = 0
    /\ last_op = "start"
    /\ filtered_df = df
    /\ passes = <<>>
    /\ HandlerIdle

\* one pass of the filters over the view reached so far
FilterPass ==
    \E sel \in Selections(df) :
        /\ Len(passes) < MaxPasses
        /\ filtered_df' = FilterView(filtered_df, sel)
        /\ passes' = Append(passes, sel)
        /\ selected' = sel
        /\ UNCHANGED <<uploaded_file, df, original_df, df_edited, task_set,
                       edited_data, changes_made, n_proposed, last_op>>
        /\ UNCHANGED handler_vars
        /\ UNCHANGED parser_vars

ViewNext == FilterPass

ViewSpec == ViewInit /\ [][ViewNext]_vars

(***************************************************************************)
(* Claims about the session and the remediation workflow (checked under    *)
(* Spec)                                                                   *)
(***************************************************************************)
Filled(frame, idx, col) == At(frame, idx, col) # NA

HasGateColumns(frame) ==
    HasColumn(frame, Department) /\ HasColumn(frame, Project) /\ HasColumn(frame, Owner)

UntaggedCount(frame) ==
    Cardinality({k \in 1..Len(frame.data) : frame.data[k][ColIndex(frame, Tagged)] = No})

\* C1: after an Apply, every row that was offered in the editor is Tagged
\* "Yes" exactly when its Department, Project and Owner, as written into
\* edited, are all non-missing, whatever Environment and CostCenter hold
C1_AutoTagGate ==
    (last_op = "apply" /\ HasGateColumns(df_edited)) =>
        \A k \in 1..Len(edited_data.index) :
            LET idx == edited_data.index[k]
            IN  (At(df_edited, idx, Tagged) = Yes)
                    <=> (/\ Filled(df_edited, idx, Department)
                         /\ Filled(df_edited, idx, Project)
                         /\ Filled(df_edited, idx, Owner))

\* an Apply after which one offered row has Department and Project filled but
\* no Owner and is still "No", while another offered row, whose Environment
\* and CostCenter are missing, has all three filled and is "Yes"
C1_Witness ==
    /\ last_op = "apply"
    /\ n_proposed >= 1
    /\ HasGateColumns(df_edited)
    /\ \E k \in 1..Len(edited_data.index) :
          LET idx == edited_data.index[k]
          IN  /\ Filled(df_edited, idx, Department)
              /\ Filled(df_edited, idx, Project)
              /\ ~Filled(df_edited, idx, Owner)
              /\ At(df_edited, idx, Tagged) = No
    /\ \E k \in 1..Len(edited_data.index) :
          At(df_edited, edited_data.index[k], Tagged) = Yes

\* C3 as claimed: whenever both snapshots are set, edited has the columns and
\* the row labels of original
C3_SameShape ==
    (original_df # None /\ df_edited # None) =>
        /\ df_edited.columns = original_df.columns
        /\ df_edited.index = original_df.index

\* C4: once original is set, no step changes it
C4_OriginalImmutable ==
    [][original_df # None => original_df' = original_df]_vars

\* original is set, another file is in the uploader than the one original was
\* taken from, and an Apply has just tagged a row of edited
C4_Witness ==
    /\ original_df # None
    /\ df # None
    /\ df # original_df
    /\ last_op = "apply"
    /\ changes_made >= 1
    /\ df_edited # original_df

\* C5 as claimed: an Apply with no cell changed in the editor leaves edited
\* as it was and reports zero
C5_EmptyBatchIsNoOp ==
    [][(last_op' = "apply" /\ n_proposed' = 0) =>
          (df_edited' = df_edited /\ changes_made' = 0)]_vars

\* the offered rows whose gate fields are all filled already
AlreadyComplete(view) ==
    {k \in 1..Len(view.index) : GateField(view, k, Department)
                                /\ GateField(view, k, Project)
                                /\ GateField(view, k, Owner)}

\* C5 amended: an Apply with no cell changed in the editor changes no cell of
\* edited other than Tagged, sets Tagged to "Yes" in exactly the offered rows
\* whose Department, Project and Owner are already all non-missing, and
\* reports the number of those rows: it is a no-op reporting zero exactly
\* when no offered row is already complete
C5_EmptyBatchTagsCompleteRows ==
    [][(last_op' = "apply" /\ n_proposed' = 0) =>
          LET view == UntaggedView(df_edited, selected)
              done == {view.index[k] : k \in AlreadyComplete(view)}
          IN  /\ changes_made' = Cardinality(done)
              /\ df_edited'.columns = df_edited.columns
              /\ df_edited'.index = df_edited.index
              /\ \A k \in 1..Len(df_edited.data) :
                   \A c \in 1..Len(df_edited.columns) :
                      df_edited'.data[k][c] =
                          IF df_edited.index[k] \in done /\ df_edited.columns[c] = Tagged
                          THEN Yes
                          ELSE df_edited.data[k][c]
              /\ (done = {} <=> (df_edited' = df_edited /\ changes_made' = 0))]_vars

\* an Apply with no cell changed, offered a row with some but not all gate
\* fields filled, that reported zero
C5_Witness ==
    /\ last_op = "apply"
    /\ n_proposed = 0
    /\ changes_made = 0
    /\ \E k \in 1..Len(edited_data.index) :
          /\ GateField(edited_data, k, Department)
          /\ ~GateField(edited_data, k, Owner)
          /\ At(df_edited, edited_data.index[k], Tagged) = No

\* C6: from one state of edited to the next, a row that is "Yes" stays "Yes"
\* and the number of "No" rows does not grow
C6_NeverUntags ==
    [][(df_edited # None) =>
          /\ df_edited' # None
          /\ Len(df_edited'.data) = Len(df_edited.data)
          /\ \A k \in 1..Len(df_edited.data) :
                df_edited.data[k][ColIndex(df_edited, Tagged)] = Yes
                    => df_edited'.data[k][ColIndex(df_edited', Tagged)] = Yes
          /\ UntaggedCount(df_edited') <= UntaggedCount(df_edited)]_vars

\* a second Apply has just tagged a row while a row tagged by an earlier
\* Apply, not offered this time, is still "Yes"
C6_Witness ==
    /\ last_op = "apply"
    /\ changes_made >= 1
    /\ df_edited.index = original_df.index
    /\ \E k \in 1..Len(df_edited.data) :
          /\ df_edited.data[k][ColIndex(df_edited, Tagged)] = Yes
          /\ original_df.data[k][ColIndex(original_df, Tagged)] = No
          /\ ~HasRow(edited_data, df_edited.index[k])

\* C10 as claimed: original is never set without edited, and when edited is
\* created it is a copy of original
C10_SetTogetherAsCopy ==
    [][/\ original_df' # None => df_edited' # None
       /\ (df_edited = None /\ df_edited' # None) => df_edited' = original_df']_vars

\* C11: the count an Apply reports is the number of rows of edited whose
\* Tagged went from "No" to "Yes" in that Apply; an offered row whose
\* Department, Project and Owner are not all filled is not among them,
\* whether it was edited or not
C11_CountIsTransitions ==
    [][last_op' = "apply" =>
          LET turned == {k \in 1..Len(df_edited.data) :
                            /\ df_edited.data[k][ColIndex(df_edited, Tagged)] = No
                            /\ df_edited'.data[k][ColIndex(df_edited', Tagged)] = Yes}
          IN  /\ changes_made' = Cardinality(turned)
              /\ \A j \in 1..Len(edited_data'.index) :
                    ~GateOpen(edited_data', j) =>
                        RowPos(df_edited, edited_data'.index[j]) \notin turned]_vars

\* an Apply with one cell changed that reported one row, while an offered row
\* with Department filled, Project and Owner missing, is still "No"
C11_Witness ==
    /\ last_op = "apply"
    /\ n_proposed = 1
    /\ changes_made = 1
    /\ \E j \in 1..Len(edited_data.index) :
          /\ GateField(edited_data, j, Department)
          /\ ~GateField(edited_data, j, Project)
          /\ ~GateField(edited_data, j, Owner)
          /\ At(df_edited, edited_data.index[j], Tagged) = No
    /\ \E j \in 1..Len(edited_data.index) :
          At(df_edited, edited_data.index[j], Tagged) = Yes

\* C12 as claimed: a script run on a newly uploaded file that lacks one of
\* ResourceID, Service, MonthlyCostUSD, Tagged computes no filtered view and
\* leaves original and edited as they were
C12_SchemaErrorSetsNothing ==
    [][(/\ uploaded_file' # uploaded_file
        /\ df' # None
        /\ ~IsEmpty(df')
        /\ MissingColumns(df') # {}) =>
          /\ filtered_df' = None
          /\ original_df' = original_df
          /\ df_edited' = df_edited]_vars

\* C14: an Apply leaves AccountID, ResourceID, Service, Region,
\* MonthlyCostUSD and CreatedBy of every row of edited as they were and
\* changes Tagged only from "No" to "Yes", in offered rows whose Department,
\* Project and Owner are all filled; the editor takes no edit on these
\* columns, and what it holds in the other columns is written into edited
C14_ReadOnlyColumns ==
    [][last_op' = "apply" =>
          /\ df_edited'.columns = df_edited.columns
          /\ df_edited'.index = df_edited.index
          /\ \A k \in 1..Len(df_edited.data) :
                /\ \A c \in 1..Len(df_edited.columns) :
                      df_edited.columns[c] \in disabled_columns \ {Tagged}
                          => df_edited'.data[k][c] = df_edited.data[k][c]
                /\ At(df_edited', df_edited.index[k], Tagged)
                        # At(df_edited, df_edited.index[k], Tagged)
                      => /\ At(df_edited, df_edited.index[k], Tagged) = No
                         /\ At(df_edited', df_edited.index[k], Tagged) = Yes
                         /\ \E j \in 1..Len(edited_data'.index) :
                               /\ edited_data'.index[j] = df_edited.index[k]
                               /\ GateOpen(edited_data', j)
          /\ \A j \in 1..Len(edited_data'.index) :
                \A c \in 1..Len(edited_data'.columns) :
                   edited_data'.columns[c] \notin disabled_columns
                      => At(df_edited', edited_data'.index[j], edited_data'.columns[c])
                            = edited_data'.data[j][c]]_vars

\* an Apply on a table with a CreatedBy column in which the analyst changed a
\* cell and a row was tagged
C14_Witness ==
    /\ last_op = "apply"
    /\ n_proposed >= 1
    /\ changes_made >= 1
    /\ HasColumn(df_edited, CreatedBy)
    /\ HasColumn(df_edited, MonthlyCostUSD)

\* C15: when load_data returns no table for a newly uploaded file, original
\* and edited keep exactly the values they had and no view is computed
C15_FailedLoadPublishesNothing ==
    [][(uploaded_file' # uploaded_file /\ uploaded_file' # 0 /\ df' = None) =>
          /\ original_df' = original_df
          /\ df_edited' = df_edited
          /\ filtered_df' = None]_vars

\* the file with the repeated column name is in the uploader, load_data
\* returned no table, and both snapshots are still set, edited with a row
\* tagged by an earlier Apply
C15_Witness ==
    /\ uploaded_file # 0
    /\ df = None
    /\ original_df # None
    /\ df_edited # None
    /\ UntaggedCount(df_edited) < UntaggedCount(original_df)

\* C16 as claimed: a file with no content, or one whose header line yields
\* no column, makes load_data signal an error and return no table
C16_EmptyInputIsError ==
    (pc = "done" /\ (content = <<>> \/ Len(headers) = 0)) => loaded = None

\* the tables of the two-row scenario: cost fields in double quotes, and bare
ScenarioQuoted == Loaded[6]
ScenarioBare == Loaded[7]

\* edited, taken from the scenario table base, after r1 got a Department, a
\* Project and an Owner
Remediated(base) ==
    /\ df_edited # None
    /\ df_edited.columns = base.columns
    /\ df_edited.index = base.index
    /\ df_edited.data[2] = base.data[2]
    /\ At(df_edited, 0, ResourceID) = <<"r1">>
    /\ At(df_edited, 0, MonthlyCostUSD) = At(base, 0, MonthlyCostUSD)
    /\ Filled(df_edited, 0, Department)
    /\ Filled(df_edited, 0, Project)
    /\ Filled(df_edited, 0, Owner)

\* what remediating r1 leads to: no untagged row, no untagged cost, r1 "Yes"
AllTagged ==
    /\ UntaggedCount(df_edited) = 0
    /\ CostByTagged(df_edited, No) = 0
    /\ At(df_edited, 0, Tagged) = Yes

\* C17 as claimed: the file with the data lines r1,EC2,,,,"100.00",No and
\* r2,S3,Eng,Apollo,jdoe,"50.00",Yes loads with untagged cost 100.00, tagged
\* cost 50.00 and 1 of 2 rows untagged, and setting Department, Project and
\* Owner of r1 leaves no untagged row, untagged cost 0.00 and r1 "Yes"
C17_ScenarioAsClaimed ==
    /\ df = ScenarioQuoted =>
          /\ Len(df.data) = 2
          /\ UntaggedCount(df) = 1
          /\ CostByTagged(df, No) = 100
          /\ CostByTagged(df, Yes) = 50
    /\ Remediated(ScenarioQuoted) => AllTagged

\* C17 amended: that file loads with 1 of 2 rows untagged but with both cost
\* cells missing (a cost field in double quotes is not a number), so untagged
\* and tagged cost are both 0; with the cost fields bare (100.00, 50.00) the
\* untagged cost is 100 and the tagged cost 50; either way, setting
\* Department, Project and Owner of r1 leaves no untagged row, untagged cost
\* 0 and r1 "Yes"
C17_ScenarioAsLoaded ==
    /\ df = ScenarioQuoted =>
          /\ Len(df.data) = 2
          /\ UntaggedCount(df) = 1
          /\ At(df, 0, MonthlyCostUSD) = NA
          /\ At(df, 1, MonthlyCostUSD) = NA
          /\ CostByTagged(df, No) = 0
          /\ CostByTagged(df, Yes) = 0
    /\ df = ScenarioBare =>
          /\ Len(df.data) = 2
          /\ UntaggedCount(df) = 1
          /\ CostByTagged(df, No) = 100
          /\ CostByTagged(df, Yes) = 50
    /\ Remediated(ScenarioQuoted) => AllTagged
    /\ Remediated(ScenarioBare) => AllTagged

\* the file with the quoted cost fields is in the uploader, both snapshots
\* were taken from it, and an Apply has just completed r1
C17_Witness ==
    /\ df = ScenarioQuoted
    /\ original_df = ScenarioQuoted
    /\ last_op = "apply"
    /\ changes_made = 1
    /\ Remediated(ScenarioQuoted)

(***************************************************************************)
(* Claims about the filtered view and its aggregations (checked under      *)
(* ViewSpec)                                                               *)
(***************************************************************************)
\* the column a select box compares
ColumnOf(w) ==
    CASE w = "service" -> Service
      [] w = "region" -> Region
      [] w = "department" -> Department
      [] w = "environment" -> Environment
      [] w = "tagged" -> Tagged

\* row k of frame meets every predicate of the selection sel ('All', or a
\* column the table lacks, is no predicate)
Satisfies(frame, k, sel) ==
    \A w \in FilterNames :
        \/ sel[w] = All
        \/ ~HasColumn(frame, ColumnOf(w))
        \/ frame.data[k][ColIndex(frame, ColumnOf(w))] = sel[w]

RECURSIVE RowsPassing(_, _, _)
\* the positions, in order, of the rows of frame from k on that meet every
\* selection of sels
RowsPassing(frame, sels, k) ==
    IF k > Len(frame.data) THEN <<>>
    ELSE (IF \A i \in 1..Len(sels) : Satisfies(frame, k, sels[i])
          THEN <<k>> ELSE <<>>) \o RowsPassing(frame, sels, k + 1)

\* C18: filtering is a pure projection: with every predicate at "All" the
\* view is the table itself; the view has the table's columns and is a
\* sub-sequence of its rows in their order; and filtering with P1 and then
\* filtering the result with P2 gives the rows that meet P1 and P2
C18_PureProjection ==
    LET keep == RowsPassing(df, passes, 1)
    IN  /\ filtered_df.columns = df.columns
        /\ filtered_df.index = [j \in 1..Len(keep) |-> df.index[keep[j]]]
        /\ filtered_df.data = [j \in 1..Len(keep) |-> df.data[keep[j]]]
        /\ \A i, j \in 1..Len(filtered_df.index) :
              i < j => filtered_df.index[i] < filtered_df.index[j]
        /\ (\A i \in 1..Len(passes) : passes[i] = AllSelected) => filtered_df = df

\* two different selections were applied one after the other, the first
\* dropped a row, the second dropped another, and a row is left
C18_Witness ==
    /\ Len(passes) = 2
    /\ passes[1] # passes[2]
    /\ Len(FilterView(df, passes[1]).data) < Len(df.data)
    /\ Len(filtered_df.data) < Len(FilterView(df, passes[1]).data)
    /\ Len(filtered_df.data) >= 1

\* C19: for an empty view the missing-value percentage of every column, the
\* tagged and the untagged percentage and the cost sums are 0 rather than a
\* failed division, and for any view the untagged-cost percentage is a number,
\* 0 whenever the total cost of the view is 0
C19_ZeroHandling ==
    /\ Len(filtered_df.data) = 0 =>
          /\ TaggedPct(filtered_df) = ZeroPct
          /\ UntaggedPct(filtered_df) = ZeroPct
          /\ \A c \in 1..Len(filtered_df.columns) :
                MissingPct(filtered_df, filtered_df.columns[c]) = ZeroPct
          /\ TotalCost(filtered_df) = 0
          /\ CostByTagged(filtered_df, No) = 0
          /\ CostByTagged(filtered_df, Yes) = 0
          /\ UntaggedCostPct(filtered_df) = ZeroPct
    /\ TotalCost(filtered_df) = 0 => UntaggedCostPct(filtered_df) = ZeroPct
    /\ UntaggedCostPct(filtered_df).ok
    /\ TaggedPct(filtered_df).ok
    /\ UntaggedPct(filtered_df).ok

\* the filters have left no row of a table that has rows
C19_Witness ==
    /\ Len(passes) >= 1
    /\ Len(df.data) >= 2
    /\ Len(filtered_df.data) = 0

\* C20 as claimed: for every table held as original, the export of original
\* has a full row on every line (nothing to repair on a second load) and
\* loads back into a table equal to original
C20_RoundTrip ==
    original_df # None =>
        /\ \A k \in 2..Len(SplitLines(ToCsv(original_df))) :
              Len(SplitFields(SplitLines(ToCsv(original_df))[k]))
                  = Len(original_df.columns)
        /\ LoadData(ToCsv(original_df)) = original_df

\* C21 as claimed: the untagged-rows export holds exactly the rows of the
\* loaded table that are Tagged "No" and pass the active filters, in their
\* order, with the columns of the loaded table
C21_UntaggedExport ==
    LET export == UntaggedResources(filtered_df)
        rows == WhereEquals(filtered_df, Tagged, No)
    IN  /\ export.index = rows.index
        /\ export.columns = df.columns
        /\ export.data = rows.data

\* C22: in a loaded table no cell is the empty string (an empty cell is the
\* missing marker), no string cell starts or ends with whitespace, a
\* MonthlyCostUSD cell that is no number is missing, and the load fails on no
\* cell content (only on a repeated column name)
C22_Canonical ==
    pc = "done" =>
        /\ loaded = None => HasDuplicates(headers)
        /\ loaded # None =>
              \A k \in 1..Len(loaded.data) : \A c \in 1..Len(loaded.columns) :
                 LET cell == loaded.data[k][c]
                 IN  /\ cell # <<>>
                     /\ cell # NA => Strip(cell) = cell
                     /\ Strip(data_rows[k][c]) = <<>> => cell = NA
                     /\ (loaded.columns[c] = MonthlyCostUSD
                            /\ ~(Len(Strip(data_rows[k][c])) = 1
                                    /\ Strip(data_rows[k][c])[1] \in DOMAIN NumValue))
                          => cell = NA

\* a table was returned for a file with a MonthlyCostUSD column, one row of
\* which holds a cost field that is no number and another field with a blank
\* after its text
C22_Witness ==
    /\ pc = "done"
    /\ loaded # None
    /\ HasColumn(loaded, MonthlyCostUSD)
    /\ \E k \in 1..Len(data_rows) :
          /\ Strip(data_rows[k][ColIndex(loaded, MonthlyCostUSD)]) # <<>>
          /\ loaded.data[k][ColIndex(loaded, MonthlyCostUSD)] = NA
          /\ \E c \in 1..Len(headers) :
                /\ Strip(data_rows[k][c]) # <<>>
                /\ Strip(data_rows[k][c]) # data_rows[k][c]
                /\ loaded.columns[c] # MonthlyCostUSD

(***************************************************************************)
(* Claims about the order of the statements of the Apply handler (checked  *)
(* under HandlerSpec)                                                      *)
(***************************************************************************)
\* the label of the row the loop is at
CurrentLabel == edited_data.index[row_no]

\* every proposed value of the row the loop is at is in edited
RowWritten ==
    \A c \in 1..Len(edited_data.columns) :
        At(df_edited, CurrentLabel, edited_data.columns[c])
            = edited_data.data[row_no][c]

\* C23: when the handler decides on the auto-tag rule for a row (line 701)
\* every proposed value of the row is already written into edited, the
\* decision is the rule evaluated on the row as written, and Tagged of the
\* row has not been set before that; edited is drawn again only when the
\* loop is over, so what is displayed is the table before the Apply or the
\* table after all of it, never a partially written row
C23_WriteThenTag ==
    /\ step = "write" =>
          At(df_edited, CurrentLabel, Tagged) = At(df, CurrentLabel, Tagged)
    /\ (step = "write" /\ col_no > Len(edited_data.columns)) =>
          /\ RowWritten
          /\ (flags.has_dept /\ flags.has_project /\ flags.has_owner)
                <=> GateOpen(df_edited, RowPos(df_edited, CurrentLabel))
    /\ step = "done" => df_edited = ApplyChanges(df, edited_data).frame
    /\ df_edited \notin {df, ApplyChanges(df, edited_data).frame}
          => step \in {"row", "write"}

\* the handler is about to decide on a row in which the analyst filled the
\* last missing gate field: the row is written, the flags hold, Tagged is
\* still "No"
C23_Witness ==
    /\ step = "write"
    /\ col_no > Len(edited_data.columns)
    /\ n_proposed >= 1
    /\ RowWritten
    /\ flags.has_dept /\ flags.has_project /\ flags.has_owner
    /\ ~GateOpen(df, RowPos(df, CurrentLabel))
    /\ At(df_edited, CurrentLabel, Tagged) = No

(***************************************************************************)
(* Further claims about Apply (checked under Spec and ScenarioSpec)        *)
(***************************************************************************)
\* row k of frame is untagged and meets the Service, Region, Department and
\* Environment selections
Offered(frame, k) ==
    /\ frame.data[k][ColIndex(frame, Tagged)] = No
    /\ Satisfies(frame, k, [selected EXCEPT !.tagged = All])

\* C24: an Apply changes only rows of edited that were Tagged "No" just
\* before it and pass the active Service, Region, Department and Environment
\* filters; every other row keeps every cell, and no row or column is added
C24_ApplyFrame ==
    [][last_op' = "apply" =>
          /\ df_edited'.columns = df_edited.columns
          /\ df_edited'.index = df_edited.index
          /\ \A k \in 1..Len(df_edited.data) :
                ~Offered(df_edited, k) => df_edited'.data[k] = df_edited.data[k]]_vars

\* an Apply under a Department filter has tagged a row while an untagged
\* row that the filter hides and an already tagged row are in edited
C24_Witness ==
    /\ last_op = "apply"
    /\ changes_made >= 1
    /\ selected.department # All
    /\ \E k \in 1..Len(df_edited.data) :
          /\ df_edited.data[k][ColIndex(df_edited, Tagged)] = No
          /\ ~Satisfies(df_edited, k, selected)
    /\ \E k \in 1..Len(df_edited.data) :
          /\ df_edited.data[k][ColIndex(df_edited, Tagged)] = Yes
          /\ ~HasRow(edited_data, df_edited.index[k])

\* edited has the columns and the row labels of original
CopyOfOriginal ==
    /\ original_df # None
    /\ df_edited # None
    /\ df_edited.columns = original_df.columns
    /\ df_edited.index = original_df.index

\* the rows that are "No" in original and "Yes" in edited
RemediatedRows ==
    {k \in 1..Len(df_edited.data) :
        /\ original_df.data[k][ColIndex(original_df, Tagged)] = No
        /\ df_edited.data[k][ColIndex(df_edited, Tagged)] = Yes}

\* C25: with Department, Project and Owner in the schema and edited a copy of
\* original, every row that is "No" in original and "Yes" in edited has all
\* three filled in edited, whatever was applied since it was tagged
C25_RemediatedStayComplete ==
    (CopyOfOriginal /\ HasGateColumns(df_edited)) =>
        \A k \in RemediatedRows :
            /\ GateField(df_edited, k, Department)
            /\ GateField(df_edited, k, Project)
            /\ GateField(df_edited, k, Owner)

\* a row whose Department was missing in original is remediated, and a later
\* Apply, in which the analyst changed a cell, tagged nothing
C25_Witness ==
    /\ CopyOfOriginal
    /\ HasGateColumns(df_edited)
    /\ last_op = "apply"
    /\ n_proposed >= 1
    /\ changes_made = 0
    /\ \E k \in RemediatedRows : ~GateField(original_df, k, Department)

\* C26: an Apply that follows an Apply at once, with the same filters and
\* nothing new typed into the editor (the values proposed before are the
\* values shown), leaves edited as it is and reports zero
C26_Idempotent ==
    [][(last_op = "apply" /\ last_op' = "apply" /\ n_proposed' = 0) =>
          (df_edited' = df_edited /\ changes_made' = 0)]_vars

\* an Apply with nothing new typed reported zero on a table in which an
\* offered row, still "No", holds a value an earlier Apply wrote
C26_Witness ==
    /\ CopyOfOriginal
    /\ last_op = "apply"
    /\ n_proposed = 0
    /\ changes_made = 0
    /\ \E j \in 1..Len(edited_data.index) :
          LET k == RowPos(df_edited, edited_data.index[j])
          IN  /\ df_edited.data[k] = edited_data.data[j]
              /\ df_edited.data[k] # original_df.data[k]
              /\ df_edited.data[k][ColIndex(df_edited, Tagged)] = No

\* the gate columns a table has
PresentGateColumns(frame) ==
    {col \in {Department, Project, Owner} : HasColumn(frame, col)}

\* the offered rows that are "Yes" in edited
TaggedOffered ==
    {j \in 1..Len(edited_data.index) :
        At(df_edited, edited_data.index[j], Tagged) = Yes}

\* C27: on a schema that lacks Department, Project or Owner, an Apply leaves
\* an offered row "Yes" exactly when the gate columns the schema has are all
\* filled in it, and reports the number of those rows; with none of the
\* three in the schema every offered row is "Yes" and counted
C27_AbsentColumnsPass ==
    (last_op = "apply" /\ ~HasGateColumns(df_edited)) =>
        /\ \A j \in 1..Len(edited_data.index) :
              j \in TaggedOffered <=>
                  \A col \in PresentGateColumns(df_edited) :
                      Filled(df_edited, edited_data.index[j], col)
        /\ changes_made = Cardinality(TaggedOffered)
        /\ PresentGateColumns(df_edited) = {} =>
              /\ TaggedOffered = 1..Len(edited_data.index)
              /\ changes_made = Len(edited_data.index)

\* an Apply on the table whose only gate column is Department: the offered
\* row with a Department is "Yes", the one without is still "No"
C27_Witness ==
    /\ last_op = "apply"
    /\ PresentGateColumns(df_edited) = {Department}
    /\ changes_made = 1
    /\ \E j \in 1..Len(edited_data.index) :
          /\ j \notin TaggedOffered
          /\ ~Filled(df_edited, edited_data.index[j], Department)

\* C28: whenever the pages are shown, the filtered view (and with it the
\* filtered count and cost, the Overview and Task 1-4 metrics and the
\* untagged export, all computed from it) holds the rows of the loaded
\* table that meet the selection, whatever has been applied to edited: an
\* Apply changes neither the loaded table nor the view
C28_ViewOfLoadedTable ==
    PagesShown(df) =>
        LET keep == RowsPassing(df, <<selected>>, 1)
        IN  /\ filtered_df.columns = df.columns
            /\ filtered_df.index = [j \in 1..Len(keep) |-> df.index[keep[j]]]
            /\ filtered_df.data = [j \in 1..Len(keep) |-> df.data[keep[j]]]
            /\ df = Loaded[uploaded_file]

\* after an Apply and a further script run under a filter, the view still
\* shows as "No" a row of the loaded table that is "Yes" in edited
C28_Witness ==
    /\ PagesShown(df)
    /\ last_op = "rerun"
    /\ selected # AllSelected
    /\ df_edited # None
    /\ df_edited.columns = df.columns
    /\ df_edited.index = df.index
    /\ \E j \in 1..Len(filtered_df.index) :
          /\ filtered_df.data[j][ColIndex(filtered_df, Tagged)] = No
          /\ At(df_edited, filtered_df.index[j], Tagged) = Yes

====
